---- MODULE Spec2Model ----
(***************************************************************************)
(* A model of the stock data dashboard (src/advanced_stock_dashboard.py):  *)
(* the data-access operations, the return and technical-indicator          *)
(* transformations of AdvancedStockDashboard, the summary statistics of    *)
(* show_individual_analysis and the control flow of main.                  *)
(*                                                                         *)
(* Floating-point values are modelled as exact rationals n/d in lowest     *)
(* terms, with the IEEE specials the code can produce: NaN (the "no value" *)
(* marker of pandas), +inf and -inf.  A standard deviation is the square   *)
(* root of a rational and is kept as a sign and a square.  Positions are   *)
(* 1-based here: position i of the source is index i+1.                    *)
(***************************************************************************)
EXTENDS Integers, Sequences, FiniteSets, TLC

VARIABLES
    db_exists,   \* os.path.exists("stock_data.db") (line 180)
    pc,          \* where control is
    conn,        \* the connection of the data-access call in progress
    fetched,     \* what its query returned: "none" before, "rows" or "empty"
    company_info,    \* show_individual_analysis's company_info
    financial_data,  \* show_individual_analysis's financial_data
    leaked,      \* connections left open by calls that control has left
    metric,      \* show_sector_comparison's position in metric_selector
    trace,       \* what the request has done so far, in order
    requests,    \* script runs so far
    frames,      \* the heap of data frames
    stock_data,  \* the caller's variable stock_data: a reference into frames
    snapshot,    \* the frame the query returned, as it was then
    stats,       \* the performance statistics shown
    again        \* the frame of a second calculate_returns call on the result

vars == <<db_exists, pc, conn, fetched, company_info, financial_data, leaked,
          metric, trace, requests, frames, stock_data, snapshot, stats, again>>

flow == <<db_exists, conn, fetched, company_info, financial_data, leaked,
          metric, trace, requests>>

data == <<frames, stock_data, snapshot, stats, again>>

(***************************************************************************)
(* Float arithmetic                                                        *)
(***************************************************************************)
RECURSIVE GCD(_, _)
GCD(a, b) == IF b = 0 THEN a ELSE GCD(b, a % b)

Abs(x) == IF x < 0 THEN -x ELSE x

Sign(x) == IF x < 0 THEN -1 ELSE IF x > 0 THEN 1 ELSE 0

Max(a, b) == IF a >= b THEN a ELSE b

Rat(n, d) ==
    LET g == GCD(Abs(n), Abs(d))
        s == IF d < 0 THEN -1 ELSE 1
    IN  [n |-> s * (n \div g), d |-> s * (d \div g)]

Num(v) == [n |-> v, d |-> 1]

NaN == [n |-> 0, d |-> 0]

Inf(s) == [n |-> s, d |-> 0]

IsNaN(x) == x.d = 0 /\ x.n = 0

IsFinite(x) == x.d > 0

FNeg(x) == [n |-> -x.n, d |-> x.d]

FAdd(x, y) ==
    IF IsNaN(x) \/ IsNaN(y) THEN NaN
    ELSE IF IsFinite(x) /\ IsFinite(y)
         THEN LET l == (x.d \div GCD(x.d, y.d)) * y.d
              IN  Rat(x.n * (l \div x.d) + y.n * (l \div y.d), l)
    ELSE IF IsFinite(x) THEN y
    ELSE IF IsFinite(y) THEN x
    ELSE IF x.n = y.n THEN x ELSE NaN

FSub(x, y) == FAdd(x, FNeg(y))

FMul(x, y) ==
    IF IsNaN(x) \/ IsNaN(y) THEN NaN
    ELSE IF IsFinite(x) /\ IsFinite(y)
         THEN LET g1 == GCD(Abs(x.n), y.d)
                  g2 == GCD(Abs(y.n), x.d)
              IN  [n |-> (x.n \div g1) * (y.n \div g2),
                   d |-> (x.d \div g2) * (y.d \div g1)]
    ELSE IF x.n = 0 \/ y.n = 0 THEN NaN
    ELSE Inf(Sign(x.n) * Sign(y.n))

\* IEEE division as numpy performs it on float columns: x/0 is an infinity (or
\* NaN for 0/0) and never raises.
FDiv(x, y) ==
    IF IsNaN(x) \/ IsNaN(y) THEN NaN
    ELSE IF IsFinite(y) /\ y.n # 0
         THEN IF IsFinite(x) THEN FMul(x, Rat(y.d, y.n))
              ELSE Inf(Sign(x.n) * Sign(y.n))
    ELSE IF IsFinite(y)
         THEN IF x.n = 0 THEN NaN ELSE Inf(Sign(x.n))
    ELSE IF IsFinite(x) THEN Num(0) ELSE NaN

\* Comparisons with NaN are false, as in IEEE.
FLt(x, y) ==
    /\ ~IsNaN(x) /\ ~IsNaN(y)
    /\ IF IsFinite(x) /\ IsFinite(y) THEN x.n * y.d < y.n * x.d
       ELSE IF IsFinite(x) THEN y.n > 0
       ELSE IF IsFinite(y) THEN x.n < 0
       ELSE x.n < y.n

FLe(x, y) == ~IsNaN(x) /\ ~IsNaN(y) /\ ~FLt(y, x)

FMax(x, y) == IF FLt(x, y) THEN y ELSE x

FMin(x, y) == IF FLt(y, x) THEN y ELSE x

(***************************************************************************)
(* s * sqrt(q): the square roots the code takes (np.sqrt(252), std())      *)
(***************************************************************************)
Surd(s, q) == [s |-> s, q |-> q]

SurdNaN == Surd(0, NaN)

SurdZero == Surd(0, Num(0))

IsSurdNaN(x) == IsNaN(x.q)

SqrtOf(q) == IF IsNaN(q) THEN SurdNaN ELSE Surd(Sign(q.n), q)

SurdOf(x) == IF IsNaN(x) THEN SurdNaN ELSE Surd(Sign(x.n), FMul(x, x))

SurdMul(x, y) ==
    IF IsSurdNaN(x) \/ IsSurdNaN(y) THEN SurdNaN
    ELSE LET q == FMul(x.q, y.q)
         IN  IF IsNaN(q) THEN SurdNaN ELSE Surd(x.s * y.s, q)

SurdDiv(x, y) ==
    IF IsSurdNaN(x) \/ IsSurdNaN(y) THEN SurdNaN
    ELSE LET q == FDiv(x.q, y.q)
         IN  IF IsNaN(q) THEN SurdNaN
             ELSE Surd(x.s * (IF y.s = 0 THEN 1 ELSE y.s), q)

(***************************************************************************)
(* pandas Series operations used by the dashboard                          *)
(***************************************************************************)
Indices(x) == 1..Len(x)

\* The series with the entries f[1], ..., f[n].
Values(f) == f \o <<>>

\* The aggregations: a sum, a product, a maximum, a minimum of two floats,
\* and with skipna, where a NaN entry is left out.
Apply(op, a, b) ==
    CASE op = "add" -> FAdd(a, b)
      [] op = "mul" -> FMul(a, b)
      [] op = "max" -> FMax(a, b)
      [] op = "min" -> FMin(a, b)

SkipNa(op, a, b) == IF IsNaN(a) THEN b ELSE IF IsNaN(b) THEN a ELSE Apply(op, a, b)

\* op over x[lo..hi], and the running values of op (with skipna) over
\* x[lo..lo], x[lo..lo+1], ..., x[lo..hi]; op is associative, and halving keeps
\* the evaluation shallow.
RECURSIVE Fold(_, _, _, _)
Fold(op, x, lo, hi) ==
    IF lo = hi THEN x[lo]
    ELSE Apply(op, Fold(op, x, lo, (lo + hi) \div 2),
               Fold(op, x, (lo + hi) \div 2 + 1, hi))

Carry(op, left, right) ==
    left \o [j \in 1..Len(right) |-> SkipNa(op, left[Len(left)], right[j])]

RECURSIVE Scan(_, _, _, _)
Scan(op, x, lo, hi) ==
    IF lo > hi THEN <<>>
    ELSE IF lo = hi THEN <<x[lo]>>
    ELSE Carry(op, Scan(op, x, lo, (lo + hi) \div 2),
               Scan(op, x, (lo + hi) \div 2 + 1, hi))

\* A running aggregate is undefined where the entry is.
Masked(x, acc) ==
    Values([i \in Indices(x) |-> IF IsNaN(x[i]) THEN NaN ELSE acc[i]])

Running(op, x) == Masked(x, Scan(op, x, 1, Len(x)))

\* Series.diff(): undefined at the first position.
Diff(x) ==
    Values([i \in Indices(x) |-> IF i = 1 THEN NaN ELSE FSub(x[i], x[i - 1])])

\* Series.pct_change(): x[i]/x[i-1] - 1, undefined at the first position.
PctChange(x) ==
    Values([i \in Indices(x) |->
               IF i = 1 THEN NaN ELSE FSub(FDiv(x[i], x[i - 1]), Num(1))])

\* Series.cumprod() and Series.cummax().
CumProd(x) == Running("mul", x)

CumMax(x) == Running("max", x)

\* x + c, x - y and x / y, entry by entry.
Plus(x, c) == Values([i \in Indices(x) |-> FAdd(x[i], Num(c))])

Minus(x, y) == Values([i \in Indices(x) |-> FSub(x[i], y[i])])

Over(x, y) == Values([i \in Indices(x) |-> FDiv(x[i], y[i])])

\* The non-NaN entries of a series, in order.
DropNa(x) == SelectSeq(x, LAMBDA v : ~IsNaN(v))

Sum(x) == IF Len(x) = 0 THEN Num(0) ELSE Fold("add", x, 1, Len(x))

\* Series.mean(), Series.min(), Series.std() (skipna; std with ddof = 1), each
\* of the non-NaN entries v.
MeanOfValues(v) == IF Len(v) = 0 THEN NaN ELSE FDiv(Sum(v), Num(Len(v)))

SeriesMean(x) == MeanOfValues(DropNa(x))

MinOfValues(v) == IF Len(v) = 0 THEN NaN ELSE Fold("min", v, 1, Len(v))

SeriesMin(x) == MinOfValues(DropNa(x))

SquaredDeviations(v, m) ==
    Values([i \in Indices(v) |-> FMul(FSub(v[i], m), FSub(v[i], m))])

Variance(v) ==
    FDiv(Sum(SquaredDeviations(v, MeanOfValues(v))), Num(Len(v) - 1))

StdOfValues(v) == IF Len(v) < 2 THEN SurdNaN ELSE SqrtOf(Variance(v))

SeriesStd(x) == StdOfValues(DropNa(x))

\* Series.rolling(window=w) (min_periods = window).  pandas slides the window:
\* entering position i adds x[i] and, once i > w, removes x[i-w], keeping the
\* number nobs of non-NaN observations in the window, their sum and (for the
\* variance) their squares.  The window's totals at i are therefore the running
\* totals at i less those at i-w.  An aggregate is undefined while nobs < w.
Observed(x) ==
    Values([i \in Indices(x) |-> IF IsNaN(x[i]) THEN Num(0) ELSE Num(1)])

Filled(x) == Values([i \in Indices(x) |-> IF IsNaN(x[i]) THEN Num(0) ELSE x[i]])

Squares(x) == Values([i \in Indices(x) |-> FMul(x[i], x[i])])

Totals(x) ==
    [nobs |-> Scan("add", Observed(x), 1, Len(x)),
     sum |-> Scan("add", Filled(x), 1, Len(x)),
     sq |-> Scan("add", Squares(Filled(x)), 1, Len(x))]

InWindow(total, w, i) == IF i > w THEN FSub(total[i], total[i - w]) ELSE total[i]

\* mean = sum / nobs
MeanOf(nobs, sum, w) == IF nobs < w THEN NaN ELSE FDiv(sum, Num(nobs))

\* The sample standard deviation (ddof = 1):
\* sqrt((sq - sum^2 / nobs) / (nobs - 1)).
StdOf(nobs, sum, sq, w) ==
    IF nobs < w THEN SurdNaN
    ELSE SqrtOf(FDiv(FSub(sq, FDiv(FMul(sum, sum), Num(nobs))), Num(nobs - 1)))

WindowMeans(t, w) ==
    Values([i \in Indices(t.sum) |->
               MeanOf(InWindow(t.nobs, w, i).n, InWindow(t.sum, w, i), w)])

WindowStds(t, w) ==
    Values([i \in Indices(t.sum) |->
               StdOf(InWindow(t.nobs, w, i).n, InWindow(t.sum, w, i),
                     InWindow(t.sq, w, i), w)])

RollingMean(x, w) == WindowMeans(Totals(x), w)

RollingStd(x, w) == WindowStds(Totals(x), w)

\* Series.ewm(span=span).mean() with the defaults adjust=True, ignore_na=False,
\* min_periods=0: the weighted average of all observations so far with weights
\* (1-alpha)^k, alpha = 2/(span+1), as pandas' online update computes it: the
\* weight of the past decays by 1-alpha, and a new observation has weight 1.
EwmAlpha(span) == Rat(2, span + 1)

Decayed(old_wt, alpha) == FMul(old_wt, FSub(Num(1), alpha))

Average(weighted, wt, cur) ==
    IF weighted = cur THEN weighted
    ELSE FDiv(FAdd(FMul(wt, weighted), cur), FAdd(wt, Num(1)))

RECURSIVE EwmFrom(_, _, _, _, _, _)
EwmStep(x, alpha, i, weighted, wt, out) ==
    IF IsNaN(x[i])
    THEN EwmFrom(x, alpha, i + 1, weighted, wt, Append(out, weighted))
    ELSE EwmFrom(x, alpha, i + 1, Average(weighted, wt, x[i]),
                 FAdd(wt, Num(1)), Append(out, Average(weighted, wt, x[i])))

EwmFrom(x, alpha, i, weighted, old_wt, out) ==
    IF i > Len(x) THEN out
    ELSE IF IsNaN(weighted)
    THEN EwmFrom(x, alpha, i + 1, x[i], old_wt, Append(out, x[i]))
    ELSE EwmStep(x, alpha, i, weighted, Decayed(old_wt, alpha), out)

EwmMean(x, span) ==
    IF Len(x) = 0 THEN <<>>
    ELSE EwmFrom(x, EwmAlpha(span), 2, x[1], Num(1), <<x[1]>>)

(***************************************************************************)
(* Data frames: a frame maps a column name to a series; all columns have   *)
(* one entry per row.  Frames live in a heap (a sequence of frames), and a *)
(* Python variable holds a reference, an index into it, so that a function *)
(* that assigns columns to the frame it was handed changes the caller's.   *)
(***************************************************************************)
BaseColumns == {"open_price", "high_price", "low_price", "close_price", "volume"}

Rows(df) == Len(df["close_price"])

\* DataFrame.empty
Empty(df) == Rows(df) = 0

\* df[name] = col: the column is added, or replaced if the frame has it.
WithCol(df, name, col) ==
    [c \in DOMAIN df \cup {name} |-> IF c = name THEN col ELSE df[c]]

\* DataFrame.copy(): a new frame with the same contents.
copy_no_copy(heap, ref) == [heap |-> heap, ref |-> ref]

copy(heap, ref) == [heap |-> Append(heap, heap[ref]), ref |-> Len(heap) + 1]

\* The frame a variable refers to, and the heap after the frame of c.ref has
\* become df.
Frame(c) == c.heap[c.ref]

Stored(c, df) == [heap |-> [c.heap EXCEPT ![c.ref] = df], ref |-> c.ref]

\* A sum or difference of a float and a square root: BB_Upper, BB_Lower.
Band(base, off) ==
    IF IsNaN(base) \/ IsSurdNaN(off) THEN [base |-> NaN, off |-> SurdNaN]
    ELSE [base |-> base, off |-> off]

SurdNeg(x) == Surd(-x.s, x.q)

IsBandNaN(b) == IsNaN(b.base)

(***************************************************************************)
(* calculate_returns                                                       *)
(***************************************************************************)
\* df['Daily_Return'] = df['close_price'].pct_change()
DailyReturn(df) == WithCol(df, "Daily_Return", PctChange(df["close_price"]))

\* df['Cumulative_Return'] = (1 + df['Daily_Return']).cumprod() - 1
CumulativeReturn(df) ==
    WithCol(df, "Cumulative_Return",
            Plus(CumProd(Plus(df["Daily_Return"], 1)), -1))

ReturnsColumns(df) == CumulativeReturn(DailyReturn(df))

ReturnsOfCopy(c) == Stored(c, ReturnsColumns(Frame(c)))

\* The heap after the call and the reference the call returns.
calculate_returns(heap, ref) ==
    IF Empty(heap[ref]) THEN [heap |-> heap, ref |-> ref]
    ELSE ReturnsOfCopy(copy(heap, ref))

(***************************************************************************)
(* calculate_technical_indicators                                          *)
(***************************************************************************)
RsiWindow == 14

BBWindow == 20

BBWidth == 2

VolumeWindow == 20

\* df['close_price'].rolling(window=w).mean()
rolling_mean_short(x, w) == RollingMean(x, w - 1)

rolling_mean(x, w) == RollingMean(x, w)

\* df['SMA_w'] = df['close_price'].rolling(window=w).mean()
Sma(df, w, name) == WithCol(df, name, rolling_mean(df["close_price"], w))

SmaColumns(df) == Sma(Sma(Sma(df, 20, "SMA_20"), 50, "SMA_50"), 200, "SMA_200")

\* df['EMA_12'], df['EMA_26'] = df['close_price'].ewm(span=...).mean()
Ema(df, span, name) == WithCol(df, name, EwmMean(df["close_price"], span))

\* df['MACD'] = df['EMA_12'] - df['EMA_26']
Macd(df) == WithCol(df, "MACD", Minus(df["EMA_12"], df["EMA_26"]))

\* df['MACD_Signal'] = df['MACD'].ewm(span=9).mean()
MacdSignal(df) == WithCol(df, "MACD_Signal", EwmMean(df["MACD"], 9))

\* df['MACD_Histogram'] = df['MACD'] - df['MACD_Signal']
MacdHistogram(df) ==
    WithCol(df, "MACD_Histogram", Minus(df["MACD"], df["MACD_Signal"]))

EwmColumns(df) ==
    MacdHistogram(MacdSignal(Macd(Ema(Ema(df, 12, "EMA_12"), 26, "EMA_26"))))

\* delta.where(delta > 0, 0) and -delta.where(delta < 0, 0): where the
\* condition is false, which it is for the NaN delta of the first row, the
\* value is replaced by 0.
Gains(delta) ==
    Values([i \in Indices(delta) |->
               IF FLt(Num(0), delta[i]) THEN delta[i] ELSE Num(0)])

Losses(delta) ==
    Values([i \in Indices(delta) |->
               FNeg(IF FLt(delta[i], Num(0)) THEN delta[i] ELSE Num(0))])

\* 100 - (100 / (1 + rs))
rsi_no_one(rs) == FSub(Num(100), FDiv(Num(100), rs))

rsi(rs) == FSub(Num(100), FDiv(Num(100), FAdd(Num(1), rs)))

RsiOf(rs) == Values([i \in Indices(rs) |-> rsi(rs[i])])

RsiOfDelta(delta) ==
    RsiOf(Over(rolling_mean(Gains(delta), RsiWindow),
               rolling_mean(Losses(delta), RsiWindow)))

RsiColumn(close) == RsiOfDelta(Diff(close))

Rsi(df) == WithCol(df, "RSI", RsiColumn(df["close_price"]))

\* df['BB_Middle'] = df['close_price'].rolling(window=20).mean()
BollingerMiddle(df) ==
    WithCol(df, "BB_Middle", rolling_mean(df["close_price"], BBWindow))

\* df['BB_Middle'] + (bb_std * 2) with sign 1, df['BB_Middle'] - (bb_std * 2)
\* with sign -1.
BandOf(mid, bb_std, sign) ==
    Values([i \in Indices(mid) |->
               Band(mid[i], SurdMul(bb_std[i], SurdOf(Num(sign * BBWidth))))])

BandsAround(df, bb_std) ==
    WithCol(WithCol(df, "BB_Upper", BandOf(df["BB_Middle"], bb_std, 1)),
            "BB_Lower", BandOf(df["BB_Middle"], bb_std, -1))

Bollinger(df) == BandsAround(df, RollingStd(df["close_price"], BBWindow))

BollingerColumns(df) == Bollinger(BollingerMiddle(df))

\* df['Volume_SMA'] = df['volume'].rolling(window=20).mean()
VolumeSma(df) ==
    WithCol(df, "Volume_SMA", rolling_mean(df["volume"], VolumeWindow))

\* The columns of lines 127-130 and 141-155: the rolling-window indicators.
RollingColumns(df) == VolumeSma(BollingerColumns(Rsi(SmaColumns(df))))

\* The columns in the order of their assignment (lines 128-155); no later
\* column reads an earlier one but the exponential averages' own.
IndicatorColumns(df) ==
    VolumeSma(BollingerColumns(Rsi(EwmColumns(SmaColumns(df)))))

IndicatorsOfCopy(c) == Stored(c, IndicatorColumns(Frame(c)))

calculate_technical_indicators(heap, ref) ==
    IF Empty(heap[ref]) THEN [heap |-> heap, ref |-> ref]
    ELSE IndicatorsOfCopy(copy(heap, ref))

\* The same call with the exponential averages left out: their exact values
\* have denominators (span+1)^i, which no machine integer holds on a long
\* series, so the rolling-window columns of a long series are computed alone.
RollingOfCopy(c) == Stored(c, RollingColumns(Frame(c)))

rolling_indicators(heap, ref) ==
    IF Empty(heap[ref]) THEN [heap |-> heap, ref |-> ref]
    ELSE RollingOfCopy(copy(heap, ref))

(***************************************************************************)
(* The performance statistics of show_individual_analysis (lines 400-406)  *)
(***************************************************************************)
TradingDays == 252

Last(x) == x[Len(x)]

\* stock_data['Daily_Return'].std() != 0: true of NaN.
NotZero(sd) == IsSurdNaN(sd) \/ sd.s # 0

\* ((close / close.cummax()) - 1).min()
drawdown_from_first(close) ==
    SeriesMin(Values([i \in Indices(close) |->
                         FSub(FDiv(close[i], close[1]), Num(1))]))

drawdown(close) == SeriesMin(Plus(Over(close, CumMax(close)), -1))

NoStats ==
    [total_return |-> NaN, volatility |-> SurdNaN,
     sharpe_ratio |-> SurdNaN, max_drawdown |-> NaN]

\* stock_data['Cumulative_Return'].iloc[-1] * 100
TotalReturn(df) == FMul(Last(df["Cumulative_Return"]), Num(100))

\* stock_data['Daily_Return'].std() * np.sqrt(252) * 100
Volatility(sd) ==
    SurdMul(SurdMul(sd, SqrtOf(Num(TradingDays))), SurdOf(Num(100)))

\* mean() / std() * np.sqrt(252) if std() != 0 else 0
SharpeRatio(mean, sd) ==
    IF NotZero(sd)
    THEN SurdMul(SurdDiv(SurdOf(mean), sd), SqrtOf(Num(TradingDays)))
    ELSE SurdZero

SummaryStatistics(df) ==
    [total_return |-> TotalReturn(df),
     volatility |-> Volatility(SeriesStd(df["Daily_Return"])),
     sharpe_ratio |->
         SharpeRatio(SeriesMean(df["Daily_Return"]), SeriesStd(df["Daily_Return"])),
     max_drawdown |-> FMul(drawdown(df["close_price"]), Num(100))]

(***************************************************************************)
(* Input series.  A daily bar is one of three; a series is a flat run of   *)
(* one bar followed by any sequence of bars of length at most MaxTail, so  *)
(* that series just shorter and just longer than every window occur.       *)
(***************************************************************************)
MaxTail == 3

Bar(o, h, l, c, v) ==
    [open_price |-> o, high_price |-> h, low_price |-> l, close_price |-> c,
     volume |-> v]

Bars == {Bar(49, 52, 48, 50, 30), Bar(98, 101, 97, 100, 10), Bar(205, 210, 190, 200, 20)}

\* The frame get_stock_data returns for the rows `bars` (lines 95-103).
FrameOf(bars) ==
    [c \in BaseColumns |-> Values([i \in 1..Len(bars) |-> Num(bars[i][c])])]

Tails == UNION {[1..n -> Bars] : n \in 0..MaxTail}

Flat(b, n) == [i \in 1..n |-> b]

PadBar == CHOOSE b \in Bars : b.close_price = 100

Series(padLens) == {Flat(PadBar, n) \o t : n \in padLens, t \in Tails}

\* 20 bars with the closes 10,11,12,11,10,9,10,11,...,23.
ScenarioCloses == <<10, 11, 12, 11, 10, 9>> \o [i \in 1..14 |-> 9 + i]

Scenario == [i \in 1..20 |-> Bar(ScenarioCloses[i], ScenarioCloses[i],
                                 ScenarioCloses[i], ScenarioCloses[i], 1000 + i)]

(***************************************************************************)
(* The transformations applied to every input series                       *)
(***************************************************************************)
InitSeries(inputs) ==
    /\ db_exists = TRUE
    /\ pc = "input"
    /\ conn = "none"
    /\ fetched = "none"
    /\ company_info = "unset"
    /\ financial_data = "unset"
    /\ leaked = 0
    /\ metric = 0
    /\ trace = <<>>
    /\ requests = 0
    /\ \E bars \in inputs :
          /\ frames = <<FrameOf(bars)>>
          /\ snapshot = FrameOf(bars)
    /\ stock_data = 1
    /\ stats = NoStats
    /\ again = 0

\* stock_data = f(stock_data): the call's heap, and its result in the variable.
Returned(r) == frames' = r.heap /\ stock_data' = r.ref

ReturnedAgain(r) == frames' = r.heap /\ again' = r.ref

\* stock_data = dashboard.calculate_returns(stock_data)
ApplyReturns ==
    /\ pc = "input"
    /\ Returned(calculate_returns(frames, stock_data))
    /\ pc' = "returns"
    /\ UNCHANGED <<flow, snapshot, stats, again>>

\* if len(stock_data) > 1: total_return = ... (lines 400-406)
ApplyStatistics ==
    /\ pc = "returns"
    /\ Rows(frames[stock_data]) > 1
    /\ stats' = SummaryStatistics(frames[stock_data])
    /\ pc' = "stats"
    /\ UNCHANGED <<flow, frames, stock_data, snapshot, again>>

\* Exact exponential averages of a series of more than two bars have
\* denominators beyond the machine integers (433 * 2029 * 61 * 312 at the
\* third bar of MACD_Signal), so the whole handler runs on the shorter series.
EwmExact(df) == Rows(df) <= 2

\* The rolling-window columns of calculate_technical_indicators, on the longer
\* series.
ApplyRolling ==
    /\ pc = "returns"
    /\ ~EwmExact(frames[stock_data])
    /\ Returned(rolling_indicators(frames, stock_data))
    /\ pc' = "indicators"
    /\ UNCHANGED <<flow, snapshot, stats, again>>

\* stock_data = dashboard.calculate_technical_indicators(stock_data)
ApplyIndicators ==
    /\ pc = "returns"
    /\ EwmExact(frames[stock_data])
    /\ Returned(calculate_technical_indicators(frames, stock_data))
    /\ pc' = "indicators"
    /\ UNCHANGED <<flow, snapshot, stats, again>>

\* calculate_returns once more, on the result.
ApplyReturnsAgain ==
    /\ pc = "indicators"
    /\ ReturnedAgain(calculate_returns(frames, stock_data))
    /\ pc' = "again"
    /\ UNCHANGED <<flow, stock_data, snapshot, stats>>

StatsPads == {0, 30 - MaxTail}

InitStats == InitSeries(Series(StatsPads))

NextStats == ApplyReturns \/ ApplyStatistics

SpecStats == InitStats /\ [][NextStats]_vars

WindowPads == {0} \cup {w - 2 : w \in {RsiWindow, BBWindow, 50, 200}}

InitIndicators == InitSeries(Series(WindowPads) \cup {Scenario})

NextIndicators ==
    ApplyReturns \/ ApplyRolling \/ ApplyIndicators \/ ApplyReturnsAgain

SpecIndicators == InitIndicators /\ [][NextIndicators]_vars

(***************************************************************************)
(* main: one run of the script per request                                 *)
(***************************************************************************)
MaxRequests == 2

DataAccess ==
    {"get_available_symbols", "get_company_info", "get_financial_data",
     "get_stock_data", "get_sector_comparison"}

\* metric_selector (line 529)
Metrics == 5

\* The rows a stock_data query can return: short series, on which the whole
\* indicator handler is exact.
StockTables == {t \in Series({0}) : Len(t) <= 2}

NoFrame == FrameOf(<<>>)

Show(what) == trace' = Append(trace, what)

\* Where an exception raised at p lands: the try of main (lines 191-211)
\* encloses every call after the database check.
handler_first_query_only(p) ==
    IF p = "get_available_symbols" THEN "except" ELSE "crashed"

Handler(p) == IF p # "main" THEN "except" ELSE "crashed"

Init ==
    /\ db_exists \in BOOLEAN
    /\ pc = "main"
    /\ conn = "none"
    /\ fetched = "none"
    /\ company_info = "unset"
    /\ financial_data = "unset"
    /\ leaked = 0
    /\ metric = 0
    /\ trace = <<>>
    /\ requests = 1
    /\ frames = <<>>
    /\ stock_data = 0
    /\ snapshot = NoFrame
    /\ stats = NoStats
    /\ again = 0

\* if not os.path.exists(db_path): st.error(...); return
MainStart ==
    /\ pc = "main"
    /\ IF db_exists
       THEN pc' = "get_available_symbols" /\ UNCHANGED trace
       ELSE pc' = "done" /\ Show("error")
    /\ UNCHANGED <<db_exists, conn, fetched, company_info, financial_data,
                   leaked, metric, requests, data>>

\* conn = self.get_connection()
Connect(op) ==
    /\ pc = op
    /\ conn = "none"
    /\ fetched = "none"
    /\ conn' = "open"
    /\ Show(op)
    /\ UNCHANGED <<db_exists, pc, fetched, company_info, financial_data, leaked,
                   metric, requests, data>>

\* pd.read_sql_query(...) raises: control leaves the operation for the
\* handler, and the connection stays open.
QueryRaises(op) ==
    /\ pc = op
    /\ conn = "open"
    /\ fetched = "none"
    /\ conn' = "none"
    /\ leaked' = leaked + 1
    /\ pc' = Handler(op)
    /\ Show("raise")
    /\ UNCHANGED <<db_exists, fetched, company_info, financial_data, metric,
                   requests, data>>

\* df = pd.read_sql_query(...)
QueryReturns(op) ==
    /\ pc = op
    /\ op # "get_stock_data"
    /\ conn = "open"
    /\ fetched = "none"
    /\ \E rows \in {"rows", "empty"} : fetched' = rows /\ Show(rows)
    /\ UNCHANGED <<db_exists, pc, conn, company_info, financial_data, leaked,
                   metric, requests, data>>

\* conn.close(); return df
CloseAndReturn(op, next) ==
    /\ pc = op
    /\ conn = "open"
    /\ fetched # "none"
    /\ conn' = "none"
    /\ pc' = next
    /\ UNCHANGED <<db_exists, leaked, metric, trace, requests>>

Operation(op, next) ==
    \/ Connect(op)
    \/ QueryRaises(op)
    \/ QueryReturns(op)
    \/ /\ CloseAndReturn(op, next)
       /\ UNCHANGED <<fetched, company_info, financial_data, data>>

get_available_symbols == Operation("get_available_symbols", "symbols")

\* if symbols_df.empty: st.error(...); return; analysis_type = selectbox(...)
SelectAnalysis ==
    /\ pc = "symbols"
    /\ fetched' = "none"
    /\ IF fetched = "empty"
       THEN pc' = "done" /\ Show("error") /\ UNCHANGED metric
       ELSE /\ UNCHANGED trace
            /\ \/ pc' = "get_company_info" /\ UNCHANGED metric
               \/ pc' = "get_sector_comparison" /\ metric' = 1
    /\ UNCHANGED <<db_exists, conn, company_info, financial_data, leaked,
                   requests, data>>

\* company_info = dashboard.get_company_info(selected_symbol)
get_company_info ==
    \/ Connect("get_company_info")
    \/ QueryRaises("get_company_info")
    \/ QueryReturns("get_company_info")
    \/ /\ CloseAndReturn("get_company_info", "get_financial_data")
       /\ company_info' = fetched
       /\ fetched' = "none"
       /\ UNCHANGED <<financial_data, data>>

\* financial_data = dashboard.get_financial_data(selected_symbol)
get_financial_data ==
    \/ Connect("get_financial_data")
    \/ QueryRaises("get_financial_data")
    \/ QueryReturns("get_financial_data")
    \/ /\ CloseAndReturn("get_financial_data", "company")
       /\ financial_data' = fetched
       /\ fetched' = "none"
       /\ UNCHANGED <<company_info, data>>

\* if company_info is None: st.error(...); return; the header and the metric
\* cards (lines 246-328).
ShowCompany ==
    /\ pc = "company"
    /\ IF company_info = "empty"
       THEN pc' = "done" /\ Show("error")
       ELSE pc' = "get_stock_data" /\ Show("company")
    /\ UNCHANGED <<db_exists, conn, fetched, company_info, financial_data,
                   leaked, metric, requests, data>>

\* get_stock_data: the query returns the rows of the symbol in the period.
get_stock_data ==
    \/ Connect("get_stock_data")
    \/ QueryRaises("get_stock_data")
    \/ /\ pc = "get_stock_data"
       /\ conn = "open"
       /\ fetched = "none"
       /\ \E bars \in StockTables :
             /\ frames' = <<FrameOf(bars)>>
             /\ snapshot' = FrameOf(bars)
             /\ fetched' = IF Len(bars) = 0 THEN "empty" ELSE "rows"
             /\ Show(IF Len(bars) = 0 THEN "empty" ELSE "rows")
       /\ UNCHANGED <<db_exists, pc, conn, company_info, financial_data, leaked,
                      metric, requests, stock_data, stats, again>>
    \/ /\ CloseAndReturn("get_stock_data", "stock")
       /\ stock_data' = 1
       /\ UNCHANGED <<fetched, company_info, financial_data, frames, snapshot,
                      stats, again>>

\* if stock_data.empty: st.warning(...); return
CheckStock ==
    /\ pc = "stock"
    /\ fetched' = "none"
    /\ IF Empty(frames[stock_data])
       THEN pc' = "done" /\ Show("warning")
       ELSE pc' = "calculate_returns" /\ UNCHANGED trace
    /\ UNCHANGED <<db_exists, conn, company_info, financial_data, leaked,
                   metric, requests, data>>

\* stock_data = dashboard.calculate_returns(stock_data)
CalculateReturns ==
    /\ pc = "calculate_returns"
    /\ Returned(calculate_returns(frames, stock_data))
    /\ Show("calculate_returns")
    /\ pc' = "price_chart"
    /\ UNCHANGED <<db_exists, conn, fetched, company_info, financial_data,
                   leaked, metric, requests, snapshot, stats, again>>

\* The price, return and volume chart (lines 343-395).
PriceChart ==
    /\ pc = "price_chart"
    /\ Show("chart")
    /\ pc' = "statistics"
    /\ UNCHANGED <<db_exists, conn, fetched, company_info, financial_data,
                   leaked, metric, requests, data>>

\* if len(stock_data) > 1: the four performance metrics
Statistics ==
    /\ pc = "statistics"
    /\ IF Rows(frames[stock_data]) > 1
       THEN stats' = SummaryStatistics(frames[stock_data]) /\ Show("statistics")
       ELSE UNCHANGED <<stats, trace>>
    /\ pc' = "calculate_technical_indicators"
    /\ UNCHANGED <<db_exists, conn, fetched, company_info, financial_data,
                   leaked, metric, requests, frames, stock_data, snapshot, again>>

\* stock_data = dashboard.calculate_technical_indicators(stock_data)
CalculateIndicators ==
    /\ pc = "calculate_technical_indicators"
    /\ Returned(calculate_technical_indicators(frames, stock_data))
    /\ Show("calculate_technical_indicators")
    /\ pc' = "indicator_chart"
    /\ UNCHANGED <<db_exists, conn, fetched, company_info, financial_data,
                   leaked, metric, requests, snapshot, stats, again>>

\* The indicator chart and the latest values (lines 426-518).
IndicatorChart ==
    /\ pc = "indicator_chart"
    /\ Show("chart")
    /\ pc' = "done"
    /\ UNCHANGED <<db_exists, conn, fetched, company_info, financial_data,
                   leaked, metric, requests, data>>

get_sector_comparison == Operation("get_sector_comparison", "sector")

\* if sector_data.empty: st.warning(...); return; the chart and the table of
\* the metric; the next metric.
ShowSector ==
    /\ pc = "sector"
    /\ fetched' = "none"
    /\ IF fetched = "empty"
       THEN pc' = "done" /\ Show("warning") /\ metric' = 0
       ELSE /\ Show("chart")
            /\ IF metric < Metrics
               THEN pc' = "get_sector_comparison" /\ metric' = metric + 1
               ELSE pc' = "done" /\ metric' = 0
    /\ UNCHANGED <<db_exists, conn, company_info, financial_data, leaked,
                   requests, data>>

\* except Exception as e: st.error(...); return
Except ==
    /\ pc = "except"
    /\ Show("error")
    /\ pc' = "done"
    /\ fetched' = "none"
    /\ metric' = 0
    /\ UNCHANGED <<db_exists, conn, company_info, financial_data, leaked,
                   requests, data>>

\* The next interaction runs the script again, in the same process.
Rerun ==
    /\ pc = "done"
    /\ requests < MaxRequests
    /\ requests' = requests + 1
    /\ pc' = "main"
    /\ trace' = <<>>
    /\ company_info' = "unset"
    /\ financial_data' = "unset"
    /\ frames' = <<>>
    /\ stock_data' = 0
    /\ snapshot' = NoFrame
    /\ stats' = NoStats
    /\ UNCHANGED <<db_exists, conn, fetched, leaked, metric, again>>

Next ==
    \/ MainStart
    \/ get_available_symbols
    \/ SelectAnalysis
    \/ get_company_info
    \/ get_financial_data
    \/ ShowCompany
    \/ get_stock_data
    \/ CheckStock
    \/ CalculateReturns
    \/ PriceChart
    \/ Statistics
    \/ CalculateIndicators
    \/ IndicatorChart
    \/ get_sector_comparison
    \/ ShowSector
    \/ Except
    \/ Rerun

Spec == Init /\ [][Next]_vars

(***************************************************************************)
(* What the claims speak of                                                *)
(***************************************************************************)
Result == frames[stock_data]

Close == snapshot["close_price"]

NonEmpty == Rows(snapshot) > 0

ReturnsDone == pc \in {"returns", "stats", "indicators", "again"} /\ NonEmpty

IndicatorsDone == pc \in {"indicators", "again"} /\ NonEmpty

\* The product of close[j]/close[j-1] over 1 < j <= i (1 for i = 1).
RECURSIVE Growth(_, _)
Growth(close, i) ==
    IF i = 1 THEN Num(1)
    ELSE FMul(Growth(close, i - 1), FDiv(close[i], close[i - 1]))

\* C1: after calculate_returns on a non-empty series, Cumulative_Return is 0
\* (a number) at the first position, 1 + Cumulative_Return[i] is the product
\* of the close ratios up to i at every position, and Daily_Return is
\* undefined at the first position only.
C1_CumulativeReturn ==
    ReturnsDone =>
        /\ Result["Cumulative_Return"][1] = Num(0)
        /\ \A i \in 1..Rows(Result) :
              /\ FAdd(Num(1), Result["Cumulative_Return"][i]) = Growth(Close, i)
              /\ IsNaN(Result["Daily_Return"][i]) <=> i = 1

\* C2: RSI is undefined at each of the first 14 positions.
C2_RsiNeedsWindowDeltas ==
    IndicatorsDone =>
        \A i \in 1..Rows(Result) : i <= RsiWindow => IsNaN(Result["RSI"][i])

\* The mean over the 14 positions ending at i of the gains max(delta, 0) and
\* of the losses max(-delta, 0), the first position counting as no change.
Change(close, k) == IF k = 1 THEN 0 ELSE close[k].n - close[k - 1].n

RECURSIVE TotalChange(_, _, _, _)
TotalChange(close, sign, lo, hi) ==
    IF lo > hi THEN 0
    ELSE Max(sign * Change(close, hi), 0) + TotalChange(close, sign, lo, hi - 1)

AvgGain(close, i) == Rat(TotalChange(close, 1, i - RsiWindow + 1, i), RsiWindow)

AvgLoss(close, i) == Rat(TotalChange(close, -1, i - RsiWindow + 1, i), RsiWindow)

\* C5: wherever RSI is defined it lies in [0, 100], and it is 100 exactly
\* when the average loss of its window is 0 and the average gain is positive.
C5_RsiBounded ==
    IndicatorsDone =>
        \A i \in 1..Rows(Result) :
            LET v == Result["RSI"][i]
            IN  ~IsNaN(v) =>
                    /\ i >= RsiWindow
                    /\ FLe(Num(0), v) /\ FLe(v, Num(100))
                    /\ v = Num(100) <=>
                           /\ AvgLoss(Close, i) = Num(0)
                           /\ FLt(Num(0), AvgGain(Close, i))

C5_Witness ==
    /\ IndicatorsDone
    /\ \E i \in 1..Rows(Result) : Result["RSI"][i] = Num(100)
    /\ \E i \in 1..Rows(Result) :
          FLt(Num(0), Result["RSI"][i]) /\ FLt(Result["RSI"][i], Num(100))

\* The arithmetic mean of the w entries of x ending at i.
RECURSIVE Total(_, _, _)
Total(x, lo, hi) == IF lo > hi THEN 0 ELSE x[hi].n + Total(x, lo, hi - 1)

MeanAt(x, w, i) == Rat(Total(x, i - w + 1, i), w)

\* The field is undefined exactly at the first w-1 positions and is the mean
\* of the last w entries of the source column from then on.
IsMovingAverage(name, source, w) ==
    \A i \in 1..Rows(Result) :
        /\ IsNaN(Result[name][i]) <=> i < w
        /\ i >= w => Result[name][i] = MeanAt(Result[source], w, i)

BandsSymmetric ==
    \A i \in 1..Rows(Result) :
        LET mid == Result["BB_Middle"][i]
            up == Result["BB_Upper"][i]
            low == Result["BB_Lower"][i]
        IN  /\ mid = Result["SMA_20"][i]
            /\ IsBandNaN(up) <=> i < BBWindow
            /\ IsBandNaN(low) <=> i < BBWindow
            /\ i >= BBWindow =>
                  /\ FSub(up.base, mid) = Num(0)
                  /\ FSub(mid, low.base) = Num(0)
                  /\ up.off = SurdNeg(low.off)
                  /\ up.off.s >= 0

MovingAverages ==
    /\ IsMovingAverage("SMA_20", "close_price", 20)
    /\ IsMovingAverage("SMA_50", "close_price", 50)
    /\ IsMovingAverage("SMA_200", "close_price", 200)
    /\ IsMovingAverage("BB_Middle", "close_price", BBWindow)
    /\ IsMovingAverage("Volume_SMA", "volume", VolumeWindow)
    /\ BandsSymmetric

IsScenario == snapshot = FrameOf(Scenario)

\* C6 as stated: every moving average is undefined exactly at the first w-1
\* positions and the mean of the last w entries from then on, the bands are
\* symmetric about BB_Middle = SMA_20, and SMA_20 of the 20-bar scenario is
\* 14.95 at its last position.
C6_AsStated ==
    IndicatorsDone =>
        /\ MovingAverages
        /\ IsScenario => Result["SMA_20"][20] = Rat(1495, 100)

\* C6, amended: the same, with the scenario's SMA_20 at its last position
\* being 14.7, the mean of its 20 closes (which sum to 294).
C6_MovingAverages ==
    IndicatorsDone =>
        /\ MovingAverages
        /\ IsScenario => Result["SMA_20"][20] = Rat(147, 10)

C6_Witness ==
    /\ IndicatorsDone
    /\ IsScenario
    /\ Result["SMA_20"][20] = Rat(147, 10)
    /\ \A i \in 1..19 : IsNaN(Result["SMA_20"][i])

\* C7: no call changes a frame that existed before it (the caller's series
\* is as it was), and the result has one row per input bar with the input's
\* columns unchanged and columns only added; a second calculate_returns on
\* the result gives the same Cumulative_Return.
ResultExtendsInput ==
    /\ frames[1] = snapshot
    /\ Rows(Result) = Rows(snapshot)
    /\ DOMAIN snapshot \subseteq DOMAIN Result
    /\ \A c \in DOMAIN snapshot : Result[c] = snapshot[c]
    /\ ~NonEmpty => Result = snapshot
    /\ ReturnsDone => {"Daily_Return", "Cumulative_Return"} \subseteq DOMAIN Result
    /\ IndicatorsDone => {"SMA_20", "RSI", "BB_Upper"} \subseteq DOMAIN Result
    /\ pc = "again" /\ NonEmpty =>
          frames[again]["Cumulative_Return"] = Result["Cumulative_Return"]

FramesKept == \A r \in DOMAIN frames : r \in DOMAIN frames' /\ frames'[r] = frames[r]

C7_Pure == []ResultExtendsInput /\ [][FramesKept]_vars

C7_Witness ==
    /\ pc = "again"
    /\ NonEmpty
    /\ again \notin {1, stock_data}
    /\ frames[again]["Cumulative_Return"] = Result["Cumulative_Return"]

\* C4: for a series of at least two bars the Sharpe ratio and the volatility
\* are defined finite numbers, the Sharpe ratio is 0 when the standard
\* deviation of the daily returns is 0, and a constant series has volatility 0,
\* Sharpe ratio 0 and maximum drawdown 0.
AllEqual(close) == \A i \in 1..Len(close) : close[i] = close[1]

C4_SharpeDefined ==
    pc = "stats" =>
        /\ ~IsSurdNaN(stats.sharpe_ratio)
        /\ IsFinite(stats.sharpe_ratio.q)
        /\ ~IsSurdNaN(stats.volatility)
        /\ stats.volatility = SurdZero => stats.sharpe_ratio = SurdZero
        /\ AllEqual(Close) =>
              /\ stats.volatility = SurdZero
              /\ stats.sharpe_ratio = SurdZero
              /\ stats.max_drawdown = Num(0)

\* C8: the maximum drawdown is the least close[i] / max(close[0..i]) - 1 (as a
\* percentage); it is never positive, is 0 on a series that never falls, and
\* is -50 % (with a total return of -50 %) for the closes 100, 50.
NonDecreasing(close) == \A i \in 2..Len(close) : FLe(close[i - 1], close[i])

PeakTo(close, i) ==
    CHOOSE m \in {close[j] : j \in 1..i} : \A j \in 1..i : FLe(close[j], m)

DrawdownAt(close, i) ==
    FMul(FSub(FDiv(close[i], PeakTo(close, i)), Num(1)), Num(100))

C8_MaxDrawdown ==
    pc = "stats" =>
        /\ FLe(stats.max_drawdown, Num(0))
        /\ \E i \in 1..Len(Close) : stats.max_drawdown = DrawdownAt(Close, i)
        /\ \A i \in 1..Len(Close) : FLe(stats.max_drawdown, DrawdownAt(Close, i))
        /\ NonDecreasing(Close) => stats.max_drawdown = Num(0)
        /\ Close = <<Num(100), Num(50)>> =>
              stats.max_drawdown = Num(-50) /\ stats.total_return = Num(-50)

C8_Witness ==
    /\ pc = "stats"
    /\ Close = <<Num(100), Num(50)>>
    /\ stats.max_drawdown = Num(-50)

\* The column follows e[0] = x[0], e[i] = a * x[i] + (1 - a) * e[i-1] with
\* a = 2 / (span + 1), and is defined at every position.
IsRecursiveEma(e, x, span) ==
    LET a == Rat(2, span + 1)
    IN  /\ Len(e) = Len(x)
        /\ e[1] = x[1]
        /\ \A i \in 2..Len(x) :
              /\ ~IsNaN(e[i])
              /\ e[i] = FAdd(FMul(a, x[i]), FMul(FSub(Num(1), a), e[i - 1]))

EmaDone == IndicatorsDone /\ "EMA_12" \in DOMAIN Result

\* C3: EMA_12 and EMA_26 over close and MACD_Signal (span 9) over MACD follow
\* the recursion seeded by the first value, and EMA_12 of a constant close
\* series is that constant at every position.
C3_EmaRecursion ==
    EmaDone =>
        /\ IsRecursiveEma(Result["EMA_12"], Close, 12)
        /\ IsRecursiveEma(Result["EMA_26"], Close, 26)
        /\ IsRecursiveEma(Result["MACD_Signal"], Result["MACD"], 9)
        /\ AllEqual(Close) => Result["EMA_12"] = Close

Shown(what) == {i \in 1..Len(trace) : trace[i] = what}

Transforms == {"calculate_returns", "calculate_technical_indicators"}

\* Nothing but the closing of the connection and a warning follows an empty
\* stock_data result.
EndsInWarning(j) ==
    /\ Len(trace) <= j + 2
    /\ Len(trace) = j + 2 => trace[j + 2] = "warning" /\ pc = "done"

\* C9: with the database file missing no query is issued and the run ends in
\* an error; calculate_returns and calculate_technical_indicators run only
\* after get_stock_data has returned rows, and the charts of the analysis only
\* after calculate_returns; an empty stock_data result ends the run with a
\* warning and no transform or chart; every raised exception reaches the
\* handler of main and is shown as an error, never propagating out of main.
C9_QueryTransformRender ==
    /\ ~db_exists =>
          /\ \A i \in 1..Len(trace) : trace[i] \notin DataAccess
          /\ conn = "none"
          /\ pc = "done" => trace = <<"error">>
    /\ \A i \in 1..Len(trace) :
          /\ trace[i] \in Transforms =>
                \E j \in 1..(i - 2) :
                    trace[j] = "get_stock_data" /\ trace[j + 1] = "rows"
          /\ trace[i] = "calculate_technical_indicators" =>
                \E j \in 1..(i - 1) : trace[j] = "calculate_returns"
          /\ trace[i] = "chart" /\ Shown("get_stock_data") # {} =>
                \E j \in 1..(i - 1) : trace[j] = "calculate_returns"
          /\ trace[i] = "get_stock_data" /\ i < Len(trace)
                /\ trace[i + 1] = "empty" => EndsInWarning(i)
          /\ trace[i] = "raise" =>
                \/ i = Len(trace) /\ pc = "except"
                \/ i + 1 = Len(trace) /\ trace[i + 1] = "error" /\ pc = "done"
    /\ pc # "crashed"
    /\ pc \in Transforms \cup {"price_chart", "statistics", "indicator_chart"} =>
          ~Empty(frames[stock_data])

\* A run after one whose query raised (and was shown as an error) goes from
\* the query through both transforms to the last chart.
C9_Witness ==
    /\ requests = 2
    /\ leaked > 0
    /\ pc = "done"
    /\ Shown("calculate_returns") # {}
    /\ Shown("calculate_technical_indicators") # {}
    /\ trace[Len(trace)] = "chart"

\* C10: no operation leaves its connection open when control leaves it, by
\* return or by exception, so outside the operations no connection is open.
C10_ConnectionsClosed ==
    /\ leaked = 0
    /\ pc \notin DataAccess => conn = "none"

====
